---- MODULE Spec2Model ----
\* Model of the cooperative LED animation engine of the festive tree lights
\* sketch: WorkState, StatefulController (timed-state machine),
\* LoopingController (repeater) and SwitchingController (sequencer).
EXTENDS Integers, Sequences, FiniteSets, TLC

\* ------------------------------------------------------------------ bounds
\* largest number of states of a generated StatefulController
MaxStates == 3
\* largest number of operations (reset / doControl) in one explored run of a
\* StatefulController or a LoopingController
MaxOps == 4
\* largest number of states of a machine wrapped in the repeater harness
MaxLoopStates == 2
\* largest maxLoopCount of the repeater harness
MaxLoopCount == 3
\* largest number of operations in one explored run of a SwitchingController
MaxSwitchOps == 3
\* largest number of controllers of a generated SwitchingController
MaxControllers == 2
\* largest maxLoopCount of a LoopingController under the switch
MaxTreeLoops == 2
\* mantissa bits of the modelled binary floating point format
FloatP == 4
\* fractional bits of the value grid of the modelled floating point format
FloatK == 6

\* ------------------------------------------------------- program constants
PWM_ANIMATION_INTERVAL == 15
UInt8 == 256

\* durations a generated state can have, fade lengths, elapsed times offered
DurSet == {0, 50, 100}
FadeSet == {30, 50}
ElapsedSet == {0, 40, 120}

\* --------------------------------------------------------------- WorkState
finishedWorkState_Zero(remainingTime) ==
  [finished |-> TRUE, suggestedSleepTime |-> 0, remainingTime |-> 0]

finishedWorkState_KeepSleep(remainingTime) ==
  [finished |-> TRUE, suggestedSleepTime |-> remainingTime, remainingTime |-> remainingTime]

finishedWorkState(remainingTime) ==
  [finished |-> TRUE, suggestedSleepTime |-> 0, remainingTime |-> remainingTime]

unfinishedWorkState(suggestedSleepTime) ==
  [finished |-> FALSE, suggestedSleepTime |-> suggestedSleepTime, remainingTime |-> 0]

\* ------------------------------------------------------------------ floats
\* A float is an integer m standing for m / 2^FloatK; it is representable
\* when |m| has at most FloatP significant bits.
RECURSIVE Pow2(_)
Pow2(n) == IF n = 0 THEN 1 ELSE 2 * Pow2(n - 1)

One == Pow2(FloatK)

Abs(x) == IF x < 0 THEN 0 - x ELSE x

\* n / d for n >= 0, d > 0, rounded to the nearest integer, ties to even
RoundDiv(n, d) ==
  LET q == n \div d
      r == n % d
  IN  IF 2 * r < d THEN q
      ELSE IF 2 * r > d THEN q + 1
      ELSE IF q % 2 = 0 THEN q ELSE q + 1

\* the binary exponent at which m >= 0 has FloatP mantissa bits
RECURSIVE ExpOf(_)
ExpOf(m) == IF m < Pow2(FloatP) THEN 0 ELSE 1 + ExpOf(m \div 2)

\* the float nearest to the rational num / den (in grid units), den > 0:
\* round to nearest, ties to the even mantissa
RoundRat(num, den) ==
  LET e == ExpOf(Abs(num) \div den)
      m == RoundDiv(Abs(num), den * Pow2(e)) * Pow2(e)
  IN  IF num < 0 THEN 0 - m ELSE m

FAdd(a, b) == RoundRat(a + b, 1)
FSub(a, b) == RoundRat(a - b, 1)
FMul(a, b) == RoundRat(a * b, One)
\* (float)a / b for unsigned integers a, b that convert exactly
FDivInt(a, b) == RoundRat(a * One, b)

constrain(x, lo, hi) == IF x < lo THEN lo ELSE IF x > hi THEN hi ELSE x

\* --------------------------------------------------------- AnalogLedsState
analogLedsState(red, amber, green, blue, white) == <<red, amber, green, blue, white>>

\* the interpolation started from the target instead of the initial value
intermediateValue_FromTarget(initial, target, relativeTime) ==
  LET delta == FSub(target, initial)
  IN  FAdd(target, FMul(relativeTime, delta))

intermediateValue(initial, target, relativeTime) ==
  LET delta == FSub(target, initial)
  IN  FAdd(initial, FMul(relativeTime, delta))

intermediateState(initial, target, relativeTime) ==
  LET rt == constrain(relativeTime, 0, One)
  IN  << intermediateValue(initial[1], target[1], rt),
         intermediateValue(initial[2], target[2], rt),
         intermediateValue(initial[3], target[3], rt),
         intermediateValue(initial[4], target[4], rt),
         intermediateValue(initial[5], target[5], rt) >>

allLedsOn == analogLedsState(One, One, One, One, One)

allLedsOff == analogLedsState(0, 0, 0, 0, 0)

\* ------------------------------------------------------- output sink, log
\* x is the trace of one top-level operation: the writes to the LEDs, the
\* activation callbacks invoked, the state indices entered, the reset and
\* doControl calls made on controllers, the duration queries made and, for
\* each write made under a SwitchingController, its _currentControllerIndex
\* at the time of the write.
NoTrace ==
  [writes |-> <<>>, applied |-> <<>>, entered |-> <<>>, calls |-> <<>>, queried |-> <<>>,
   cursors |-> <<>>, done |-> {}, reentered |-> <<>>, finishes |-> <<>>]

\* done is the set of controllers that have returned finished and have not
\* been reset since; reentered lists the doControl calls made on one of
\* them; finishes lists the finished results returned, by their controller
logCall(x, kind, id, name, t) ==
  [x EXCEPT !.calls = Append(@, <<kind, id, name, t>>),
            !.reentered = IF name = "doControl" /\ <<kind, id>> \in x.done
                          THEN Append(@, <<kind, id>>) ELSE @,
            !.done = IF name = "reset" THEN @ \ {<<kind, id>>} ELSE @]

logDone(x, kind, id) ==
  [x EXCEPT !.done = @ \cup {<<kind, id>>}, !.finishes = Append(@, <<kind, id>>)]

\* the empty trace an operation starts with, for what is known from before
After(x) == [NoTrace EXCEPT !.done = x.done]

setDigitalLedStates(id, x, leds) ==
  [x EXCEPT !.writes = Append(@, [by |-> id, kind |-> "digital", v |-> leds])]

setAnalogLedStates(id, x, state) ==
  [x EXCEPT !.writes = Append(@, [by |-> id, kind |-> "analog", v |-> state])]

\* ------------------------------------------------------ StatefulController
\* A controller c is the table of a StatefulController subclass:
\* maxStateIndex, duration[i+1] = getStateDuration(i), apply[i+1] = what
\* applyLedStatesForState(i) does.  w = [s |-> fields, x |-> trace].
StatefulController(maxStateIndex) ==
  [currentStateIndex |-> 0, timeSpentOnCurrentState |-> 0,
   pwmTransitionInProgress |-> FALSE,
   initialState |-> allLedsOff, targetState |-> allLedsOff,
   totalTransitionTime |-> 0]

getStateDuration(c, stateIndex) == c.duration[stateIndex + 1]

startPwmTransition(id, w, transitionTime, initial, target) ==
  [s |-> [w.s EXCEPT !.pwmTransitionInProgress = TRUE,
                     !.totalTransitionTime = transitionTime,
                     !.initialState = initial,
                     !.targetState = target],
   x |-> setAnalogLedStates(id, w.x, initial)]

applyLedStatesForState(c, id, w, stateIndex) ==
  LET w1 == [w EXCEPT !.x.applied = Append(@, <<id, stateIndex>>)]
  IN  IF stateIndex >= Len(c.apply) THEN w1
      ELSE LET a == c.apply[stateIndex + 1]
           IN  IF a.kind = "pwm"
               THEN startPwmTransition(id, w1, a.time, a.initial, a.target)
               ELSE [w1 EXCEPT !.x = setDigitalLedStates(id, w1.x, a.leds)]

\* a fade step that writes the target but leaves the fade in progress
animatePwmTransition_KeepFlag(id, w, timeSpentOnCurrentState) ==
  IF timeSpentOnCurrentState >= w.s.totalTransitionTime
  THEN [w EXCEPT !.x = setAnalogLedStates(id, w.x, w.s.targetState)]
  ELSE LET relativeElapsedTime == FDivInt(timeSpentOnCurrentState, w.s.totalTransitionTime)
           newState == intermediateState(w.s.initialState, w.s.targetState, relativeElapsedTime)
       IN  [w EXCEPT !.x = setAnalogLedStates(id, w.x, newState)]

animatePwmTransition(id, w, timeSpentOnCurrentState) ==
  IF timeSpentOnCurrentState >= w.s.totalTransitionTime
  THEN [s |-> [w.s EXCEPT !.pwmTransitionInProgress = FALSE],
        x |-> setAnalogLedStates(id, w.x, w.s.targetState)]
  ELSE LET relativeElapsedTime == FDivInt(timeSpentOnCurrentState, w.s.totalTransitionTime)
           newState == intermediateState(w.s.initialState, w.s.targetState, relativeElapsedTime)
       IN  [w EXCEPT !.x = setAnalogLedStates(id, w.x, newState)]

\* the loop without the subtraction of the duration of the state left
RECURSIVE doControlLoop_NoSubtract(_, _, _, _, _)
doControlLoop_NoSubtract(c, currentStateIndex, timeSpentOnCurrentState, currentStateDuration, entered) ==
  IF timeSpentOnCurrentState >= currentStateDuration /\ currentStateIndex < c.maxStateIndex
  THEN LET idx == (currentStateIndex + 1) % UInt8
       IN  doControlLoop_NoSubtract(c, idx, timeSpentOnCurrentState,
                         IF idx < c.maxStateIndex THEN c.duration[idx + 1] ELSE 0,
                         Append(entered, idx))
  ELSE [currentStateIndex |-> currentStateIndex,
        timeSpentOnCurrentState |-> timeSpentOnCurrentState,
        currentStateDuration |-> currentStateDuration,
        entered |-> entered]

\* the loop leaving a state only when its duration is strictly exceeded
RECURSIVE doControlLoop_Strict(_, _, _, _, _)
doControlLoop_Strict(c, currentStateIndex, timeSpentOnCurrentState, currentStateDuration, entered) ==
  IF timeSpentOnCurrentState > currentStateDuration /\ currentStateIndex < c.maxStateIndex
  THEN LET idx == (currentStateIndex + 1) % UInt8
       IN  doControlLoop_Strict(c, idx, timeSpentOnCurrentState - currentStateDuration,
                         IF idx < c.maxStateIndex THEN c.duration[idx + 1] ELSE 0,
                         Append(entered, idx))
  ELSE [currentStateIndex |-> currentStateIndex,
        timeSpentOnCurrentState |-> timeSpentOnCurrentState,
        currentStateDuration |-> currentStateDuration,
        entered |-> entered]

\* the duration query made for a state past the last one too
nextStateDuration_Unguarded(c, idx) ==
  [d |-> IF idx < c.maxStateIndex THEN getStateDuration(c, idx) ELSE 0, queried |-> <<idx>>]

\* the duration the while loop goes on with after entering state idx, and
\* the duration query it makes for it
nextStateDuration(c, idx) ==
  IF idx < c.maxStateIndex
  THEN [d |-> getStateDuration(c, idx), queried |-> <<idx>>]
  ELSE [d |-> 0, queried |-> <<>>]

\* the duration queries made by the while loop for the states entered
RECURSIVE loopQueries(_, _)
loopQueries(c, entered) ==
  IF entered = <<>> THEN <<>>
  ELSE nextStateDuration(c, Head(entered)).queried \o loopQueries(c, Tail(entered))

\* the while loop of doControl: leaves the states whose duration has passed
RECURSIVE doControlLoop(_, _, _, _, _)
doControlLoop(c, currentStateIndex, timeSpentOnCurrentState, currentStateDuration, entered) ==
  IF timeSpentOnCurrentState >= currentStateDuration /\ currentStateIndex < c.maxStateIndex
  THEN LET idx == (currentStateIndex + 1) % UInt8
       IN  doControlLoop(c, idx, timeSpentOnCurrentState - currentStateDuration,
                         nextStateDuration(c, idx).d,
                         Append(entered, idx))
  ELSE [currentStateIndex |-> currentStateIndex,
        timeSpentOnCurrentState |-> timeSpentOnCurrentState,
        currentStateDuration |-> currentStateDuration,
        entered |-> entered]

\* the branch suggesting the whole duration of the state when no fade runs
doControlTail_FullDuration(id, w, currentStateDuration) ==
  IF w.s.pwmTransitionInProgress
  THEN LET w1 == animatePwmTransition(id, w, w.s.timeSpentOnCurrentState)
       IN  [s |-> w1.s, x |-> w1.x, r |-> unfinishedWorkState(PWM_ANIMATION_INTERVAL), fade |-> TRUE]
  ELSE [s |-> w.s, x |-> w.x, r |-> unfinishedWorkState(currentStateDuration), fade |-> FALSE]

\* the branch suggesting the rest of the state while a fade runs as well
doControlTail_RestOfState(id, w, currentStateDuration) ==
  IF w.s.pwmTransitionInProgress
  THEN LET w1 == animatePwmTransition(id, w, w.s.timeSpentOnCurrentState)
       IN  [s |-> w1.s, x |-> w1.x,
            r |-> unfinishedWorkState(currentStateDuration - w.s.timeSpentOnCurrentState),
            fade |-> TRUE]
  ELSE LET remainingTime == currentStateDuration - w.s.timeSpentOnCurrentState
       IN  [s |-> w.s, x |-> w.x, r |-> unfinishedWorkState(remainingTime), fade |-> FALSE]

\* the result of the branch on _pwmTransitionInProgress that ends doControl
doControlTail(id, w, currentStateDuration) ==
  IF w.s.pwmTransitionInProgress
  THEN LET w1 == animatePwmTransition(id, w, w.s.timeSpentOnCurrentState)
       IN  [s |-> w1.s, x |-> w1.x, r |-> unfinishedWorkState(PWM_ANIMATION_INTERVAL), fade |-> TRUE]
  ELSE LET remainingTime == currentStateDuration - w.s.timeSpentOnCurrentState
       IN  [s |-> w.s, x |-> w.x, r |-> unfinishedWorkState(remainingTime), fade |-> FALSE]

\* the activation callback invoked on every call
stateTransition_Always(lastObservedStateIndex, currentStateIndex) == TRUE

\* whether doControl calls the activation callback after the loop
stateTransition(lastObservedStateIndex, currentStateIndex) ==
  lastObservedStateIndex # currentStateIndex

\* the indices q as entries of the trace of controller id
tagged(id, q) == [k \in 1..Len(q) |-> <<id, q[k]>>]

SC_doControl(c, id, w, timeSinceLastCall) ==
  LET w0 == [w EXCEPT !.x = logCall(@, "SC", id, "doControl", timeSinceLastCall)]
  IN
  IF w.s.currentStateIndex >= c.maxStateIndex
  THEN [s |-> w0.s, x |-> logDone(w0.x, "SC", id),
        r |-> finishedWorkState(timeSinceLastCall), fade |-> FALSE]
  ELSE
    LET lastObservedStateIndex == w.s.currentStateIndex
        l == doControlLoop(c, w.s.currentStateIndex,
                           w.s.timeSpentOnCurrentState + timeSinceLastCall,
                           getStateDuration(c, w.s.currentStateIndex), <<>>)
        w1 == [s |-> [w.s EXCEPT !.currentStateIndex = l.currentStateIndex,
                                 !.timeSpentOnCurrentState = l.timeSpentOnCurrentState],
               x |-> [w0.x EXCEPT !.entered = @ \o [k \in 1..Len(l.entered) |-> <<id, l.entered[k]>>],
                                  !.queried = @ \o tagged(id, <<lastObservedStateIndex>>
                                                               \o loopQueries(c, l.entered))]]
    IN  IF l.currentStateIndex >= c.maxStateIndex
        THEN [s |-> w1.s, x |-> logDone(w1.x, "SC", id),
              r |-> finishedWorkState(l.timeSpentOnCurrentState), fade |-> FALSE]
        ELSE LET w2 == IF stateTransition(lastObservedStateIndex, l.currentStateIndex)
                       THEN applyLedStatesForState(c, id, w1, l.currentStateIndex)
                       ELSE w1
             IN  doControlTail(id, w2, l.currentStateDuration)

SC_reset(c, id, w) ==
  LET w1 == [s |-> [w.s EXCEPT !.currentStateIndex = 0, !.timeSpentOnCurrentState = 0],
             x |-> [logCall(w.x, "SC", id, "reset", 0) EXCEPT !.entered = Append(@, <<id, 0>>)]]
  IN  applyLedStatesForState(c, id, w1, 0)

\* ------------------------------------------------------- LoopingController
\* lc = [maxLoopCount, controller (the table of the wrapped machine)];
\* fields of a LoopingController: currentLoopCount and, in child, the fields
\* of the controller it points to.
LoopingController(controller, maxLoopCount) ==
  [currentLoopCount |-> 0, child |-> controller]

\* the next iteration started with no time left over
loopRemainingTime_Dropped(innerResult) == 0

\* the time the next iteration of the loop starts with
loopRemainingTime(innerResult) == innerResult.remainingTime

\* the loop taken as done only once the count has passed maxLoopCount
allIterationsDone_Strict(currentLoopCount, maxLoopCount) == currentLoopCount > maxLoopCount

\* the test doControl starts with: all loop iterations are done
allIterationsDone(currentLoopCount, maxLoopCount) == currentLoopCount >= maxLoopCount

RECURSIVE LC_doControl(_, _, _, _)
LC_doControl(lc, id, w, timeSinceLastCall) ==
  LET x0 == logCall(w.x, "LC", id, "doControl", timeSinceLastCall)
  IN
  IF allIterationsDone(w.s.currentLoopCount, lc.maxLoopCount)
  THEN [s |-> w.s, x |-> logDone(x0, "LC", id),
        r |-> finishedWorkState(timeSinceLastCall), fade |-> FALSE]
  ELSE
    LET inner == SC_doControl(lc.controller, id, [s |-> w.s.child, x |-> x0], timeSinceLastCall)
        innerResult == inner.r
    IN  IF ~innerResult.finished
        THEN [s |-> [w.s EXCEPT !.child = inner.s], x |-> inner.x, r |-> innerResult,
              fade |-> inner.fade]
        ELSE
          LET currentLoopCount == w.s.currentLoopCount + 1
          IN  IF currentLoopCount >= lc.maxLoopCount
              THEN [s |-> [currentLoopCount |-> currentLoopCount, child |-> inner.s],
                    x |-> logDone(inner.x, "LC", id), r |-> innerResult, fade |-> inner.fade]
              ELSE
                LET wr == SC_reset(lc.controller, id, [s |-> inner.s, x |-> inner.x])
                    remainingTime == loopRemainingTime(innerResult)
                IN  LC_doControl(lc, id,
                                 [s |-> [currentLoopCount |-> currentLoopCount, child |-> wr.s],
                                  x |-> wr.x],
                                 remainingTime)

LC_reset(lc, id, w) ==
  LET x0 == logCall(w.x, "LC", id, "reset", 0)
      wr == SC_reset(lc.controller, id, [s |-> w.s.child, x |-> x0])
  IN  [s |-> [currentLoopCount |-> 0, child |-> wr.s], x |-> wr.x]

\* ------------------------------------------------------- ILedController
\* virtual dispatch: a controller of the switch is a LoopingController or,
\* as oneByOneFadeController, a bare StatefulController
IsLoop(nc) == "maxLoopCount" \in DOMAIN nc

NewController(nc) ==
  IF IsLoop(nc)
  THEN LoopingController(StatefulController(nc.controller.maxStateIndex), nc.maxLoopCount)
  ELSE StatefulController(nc.maxStateIndex)

ILedController_doControl(nc, id, w, timeSinceLastCall) ==
  IF IsLoop(nc) THEN LC_doControl(nc, id, w, timeSinceLastCall)
  ELSE SC_doControl(nc, id, w, timeSinceLastCall)

ILedController_reset(nc, id, w) ==
  IF IsLoop(nc) THEN LC_reset(nc, id, w) ELSE SC_reset(nc, id, w)

\* ----------------------------------------------------- SwitchingController
\* tc is the sequence of the controllers of getControllerByIndex; the fields
\* are currentControllerIndex and, in ctl, the fields of those controllers.
NULL == 0 - 1

getControllerByIndex(tc, index) == IF index < Len(tc) THEN index ELSE NULL

getControllerCount(tc) == Len(tc) % UInt8

SwitchingController(tc) ==
  [currentControllerIndex |-> 0, ctl |-> [i \in 1..Len(tc) |-> NewController(tc[i])]]

\* the writes of x not yet stamped were made while the cursor was at cursor
stamp(x, cursor) ==
  [x EXCEPT !.cursors = @ \o [k \in 1..(Len(x.writes) - Len(@)) |-> cursor]]

\* a switch that moves its cursor but resets its first controller
switchToController_ResetFirst(tc, w, controllerIndex) ==
  LET wr == ILedController_reset(tc[1], 0, [s |-> w.s.ctl[1], x |-> w.x])
  IN  [s |-> [currentControllerIndex |-> controllerIndex,
              ctl |-> [w.s.ctl EXCEPT ![1] = wr.s]],
       x |-> stamp(wr.x, controllerIndex)]

\* a switch that moves its cursor without resetting the controller
switchToController_NoReset(tc, w, controllerIndex) ==
  [w EXCEPT !.s.currentControllerIndex = controllerIndex]

switchToController(tc, w, controllerIndex) ==
  LET currentController == getControllerByIndex(tc, controllerIndex)
  IN  IF currentController # NULL
      THEN LET wr == ILedController_reset(tc[controllerIndex + 1], controllerIndex,
                                          [s |-> w.s.ctl[controllerIndex + 1], x |-> w.x])
           IN  [s |-> [currentControllerIndex |-> controllerIndex,
                       ctl |-> [w.s.ctl EXCEPT ![controllerIndex + 1] = wr.s]],
                x |-> stamp(wr.x, controllerIndex)]
      ELSE [w EXCEPT !.s.currentControllerIndex = controllerIndex]

\* a switch that moves on from its last controller without wrapping
nextControllerIndex_NoWrap(index, controllerCount) == (index + 1) % UInt8

\* a switch that keeps its cursor when the controller at index has finished
nextControllerIndex_Stay(index, controllerCount) == index

\* the index the switch moves to when the controller at index has finished
nextControllerIndex(index, controllerCount) ==
  IF index < controllerCount - 1 THEN (index + 1) % UInt8 ELSE 0

\* a switch that stops after its last controller instead of wrapping
SW_controllerReturned_StopAtEnd(tc, w, remainingTime, inner) ==
  LET controllerCount == getControllerCount(tc)
      cur == w.s.currentControllerIndex
      controllerState == inner.r
      w1 == [s |-> [w.s EXCEPT !.ctl[cur + 1] = inner.s], x |-> inner.x]
  IN  IF controllerState.finished /\ cur < controllerCount - 1
      THEN LET w2 == switchToController(tc, w1, nextControllerIndex(cur, controllerCount))
           IN  [s |-> w2.s, x |-> w2.x, thereIsMoreTimeToSpend |-> TRUE,
                remainingTime |-> controllerState.remainingTime,
                r |-> controllerState, fade |-> inner.fade, leaf |-> controllerState]
      ELSE [s |-> w1.s, x |-> w1.x, thereIsMoreTimeToSpend |-> FALSE,
            remainingTime |-> remainingTime,
            r |-> IF controllerState.finished THEN controllerState
                  ELSE unfinishedWorkState(controllerState.suggestedSleepTime),
            fade |-> inner.fade, leaf |-> controllerState]

\* a switch that returns its local suggestedSleepTime as initialised
SW_controllerReturned_OwnSleep(tc, w, remainingTime, inner) ==
  LET controllerCount == getControllerCount(tc)
      cur == w.s.currentControllerIndex
      controllerState == inner.r
      w1 == [s |-> [w.s EXCEPT !.ctl[cur + 1] = inner.s], x |-> stamp(inner.x, cur)]
  IN  IF controllerState.finished
      THEN LET w2 == switchToController(tc, w1, nextControllerIndex(cur, controllerCount))
           IN  [s |-> w2.s, x |-> w2.x, thereIsMoreTimeToSpend |-> TRUE,
                remainingTime |-> controllerState.remainingTime,
                r |-> controllerState, fade |-> inner.fade, leaf |-> controllerState]
      ELSE [s |-> w1.s, x |-> w1.x, thereIsMoreTimeToSpend |-> FALSE,
            remainingTime |-> remainingTime,
            r |-> unfinishedWorkState(0),
            fade |-> inner.fade, leaf |-> controllerState]

\* the rest of a pass of the do-while loop once the current controller has
\* returned inner: r is what doControl returns when the pass ends the loop,
\* leaf what the controller returned
SW_controllerReturned(tc, w, remainingTime, inner) ==
  LET controllerCount == getControllerCount(tc)
      cur == w.s.currentControllerIndex
      controllerState == inner.r
      w1 == [s |-> [w.s EXCEPT !.ctl[cur + 1] = inner.s], x |-> stamp(inner.x, cur)]
  IN  IF controllerState.finished
      THEN LET w2 == switchToController(tc, w1, nextControllerIndex(cur, controllerCount))
           IN  [s |-> w2.s, x |-> w2.x, thereIsMoreTimeToSpend |-> TRUE,
                remainingTime |-> controllerState.remainingTime,
                r |-> controllerState, fade |-> inner.fade, leaf |-> controllerState]
      ELSE [s |-> w1.s, x |-> w1.x, thereIsMoreTimeToSpend |-> FALSE,
            remainingTime |-> remainingTime,
            r |-> unfinishedWorkState(controllerState.suggestedSleepTime),
            fade |-> inner.fade, leaf |-> controllerState]

\* one pass of the do-while loop of doControl
SW_doControlPass(tc, w, remainingTime) ==
  LET cur == w.s.currentControllerIndex
  IN  SW_controllerReturned(tc, w, remainingTime,
         ILedController_doControl(tc[cur + 1], cur,
                                  [s |-> w.s.ctl[cur + 1], x |-> w.x], remainingTime))

SW_reset(tc, w) == switchToController(tc, w, 0)

\* ------------------------------------ generated StatefulController tables
\* a single LED lit, as in LedBrightnessTestingController::applyLedStatesForState
singleLed(stateIndex) == [ch \in 1..5 |-> ch = (stateIndex % 5) + 1]

\* one LED fully on, as in SloGloController::getLedStatesForState
singleLedState(stateIndex) == [ch \in 1..5 |-> IF ch = (stateIndex % 5) + 1 THEN One ELSE 0]

digitalState(stateIndex) == [kind |-> "digital", leds |-> singleLed(stateIndex)]

pwmState(stateIndex, transitionDuration) ==
  [kind |-> "pwm", time |-> transitionDuration,
   initial |-> singleLedState(stateIndex), target |-> singleLedState(stateIndex + 1)]

\* the activation tables of the shapes the sketch has: only static patterns
\* (FlowingTwoLedsController), only fades (SloGloController), static patterns
\* followed by fades (ChasingFlashController), fades closed by a static
\* pattern (SequentialFadeController)
Families == {"digital", "pwm", "digitalThenPwm", "pwmThenDigital"}

familyApply(family, n, transitionDuration) ==
  [i \in 1..n |->
     CASE family = "digital" -> digitalState(i - 1)
       [] family = "pwm" -> pwmState(i - 1, transitionDuration)
       [] family = "digitalThenPwm" ->
            IF i = 1 THEN digitalState(i - 1) ELSE pwmState(i - 1, transitionDuration)
       [] OTHER ->
            IF i = n THEN digitalState(i - 1) ELSE pwmState(i - 1, transitionDuration)]

controllerTable(durations, family, transitionDuration) ==
  [maxStateIndex |-> Len(durations) % UInt8,
   duration |-> durations,
   apply |-> familyApply(family, Len(durations), transitionDuration)]

Tables(maxStates, families, fades) ==
  UNION {{controllerTable(d, f, t) : d \in [1..n -> DurSet], f \in families, t \in fades}
         : n \in 1..maxStates}

\* the machines of the single machine runs
Controllers == Tables(MaxStates, Families, FadeSet)

\* the machines wrapped by the repeater harness
LoopControllers == Tables(MaxLoopStates, {"digital", "pwmThenDigital"}, {30})

\* the machine of M * N states whose states [k*N, (k+1)*N) replicate c
RECURSIVE Replicate(_, _)
Replicate(q, m) == IF m = 0 THEN <<>> ELSE q \o Replicate(q, m - 1)

flatTable(c, m) ==
  [maxStateIndex |-> (m * c.maxStateIndex) % UInt8,
   duration |-> Replicate(c.duration, m),
   apply |-> Replicate(c.apply, m)]

\* the controllers a generated switch is made of
SwitchTables ==
  {controllerTable(<<0>>, "digital", 30), controllerTable(<<50>>, "digital", 30),
   controllerTable(<<100, 0>>, "pwmThenDigital", 50)}

SwitchControllers ==
  {[maxLoopCount |-> m, controller |-> c] : m \in 0..MaxTreeLoops, c \in SwitchTables}
    \cup {controllerTable(<<50, 100>>, "pwm", 30)}

Switches == UNION {[1..n -> SwitchControllers] : n \in 1..MaxControllers}

RECURSIVE SumSeq(_)
SumSeq(q) == IF q = <<>> THEN 0 ELSE Head(q) + SumSeq(Tail(q))

\* total duration of all states of c
TotalDuration(c) == SumSeq(c.duration)

\* time accounted for by the position s of a machine
Consumed(c, s) ==
  SumSeq(SubSeq(c.duration, 1, s.currentStateIndex)) + s.timeSpentOnCurrentState

\* time left until the machine in position s has passed its last state
Remaining(c, s) ==
  IF s.currentStateIndex >= c.maxStateIndex THEN 0 ELSE TotalDuration(c) - Consumed(c, s)

\* how often v occurs in the sequence q
Count(q, v) == Cardinality({k \in 1..Len(q) : q[k] = v})

\* ------------------------------------------------------------- state
VARIABLES
  cfg,   \* table of the StatefulController under test
  sc,    \* its fields
  res,   \* WorkState returned by the last doControl
  op,    \* the last operation and its argument
  tr,    \* trace of the last operation
  pre,   \* fields, result and fade branch before the last operation
  hist,  \* history since the last reset()
  lp,    \* a LoopingController and the flat machine it is compared with; in
         \* childDone, how often its machine has returned finished to it
         \* since its last reset()
  tcfg,  \* the controllers of the SwitchingController
  sw,    \* the fields of the SwitchingController and of its controllers
  run,   \* position of SwitchingController::doControl, its locals, the cursor
         \* before, the controller's result, whether a fade was animated in
         \* its last pass and, in T, the elapsed times of the doControl calls
         \* since reset() added up (kept in the runs of generated calls, not
         \* under loop(), where it grows for ever)
  tres,  \* WorkState returned by the last SwitchingController::doControl
  ttr,   \* trace of the last reset() or pass of the do-while loop
  beat,  \* parity of the number of passes of the do-while loop and of steps
         \* of loop() made so far
  drv,   \* position of loop(), its local sleepTime, what it has called and
         \* what the doControl before the current one returned
  ip     \* one application of intermediateState: arguments and result

varsMachine == <<cfg, sc, res, op, tr, pre, hist>>
varsLoop == <<lp>>
varsSwitch == <<tcfg, sw, run, tres, ttr, beat>>
varsDriver == <<drv>>
varsInterp == <<ip>>
vars == <<cfg, sc, res, op, tr, pre, hist, lp, tcfg, sw, run, tres, ttr, beat, drv, ip>>

NoResult == [finished |-> FALSE, suggestedSleepTime |-> 0, remainingTime |-> 0]

\* the elapsed times of the calls of the scenario with durations [100, 50]
Scenario == <<0, 120, 40>>

\* calls counts the doControl calls since reset(); script is how many calls
\* of Scenario they are, or -1 when they are not a prefix of it
NoHist(n) ==
  [ops |-> 0, wasReset |-> FALSE, calls |-> 0, script |-> 0, T |-> 0, remainders |-> 0,
   applyCount |-> [i \in 0..(n - 1) |-> 0],
   enterCount |-> [i \in 0..(n - 1) |-> 0],
   restCount |-> [i \in 0..(n - 1) |-> 0]]

\* a constructed StatefulController with table c
MachineStart(c) ==
  /\ cfg = c
  /\ sc = StatefulController(c.maxStateIndex)
  /\ res = NoResult
  /\ op = [name |-> "new", elapsed |-> 0, fade |-> FALSE]
  /\ tr = NoTrace
  /\ pre = [s |-> StatefulController(c.maxStateIndex), r |-> NoResult,
            name |-> "new", fade |-> FALSE]
  /\ hist = NoHist(c.maxStateIndex)

\* a constructed LoopingController lc beside the constructed flat machine
LoopStart(lc) ==
  lp = [lc |-> lc, flat |-> flatTable(lc.controller, lc.maxLoopCount),
        ls |-> NewController(lc),
        fs |-> StatefulController((lc.maxLoopCount * lc.controller.maxStateIndex) % UInt8),
        lres |-> NoResult, fres |-> NoResult, tr |-> NoTrace,
        name |-> "new", elapsed |-> 0, wasReset |-> FALSE, ops |-> 0, childDone |-> 0]

\* a constructed SwitchingController over the controllers tc
SwitchStart(tc) ==
  /\ tcfg = tc
  /\ sw = SwitchingController(tc)
  /\ run = [pc |-> "idle", name |-> "new", elapsed |-> 0, remainingTime |-> 0,
            wrapped |-> FALSE, passes |-> 0, wasReset |-> FALSE, ops |-> 0,
            cursor |-> 0, leaf |-> NoResult, fade |-> FALSE, T |-> 0]
  /\ tres = NoResult
  /\ ttr = NoTrace
  /\ beat = 0

\* loop() has not been entered
DriverOff ==
  drv = [pc |-> "off", sleepTime |-> 0, resets |-> 0, calls |-> 0,
         timeSinceLastCall |-> 0, last |-> NoResult, lastFade |-> FALSE]

\* intermediateState has not been applied
InterpOff ==
  ip = [pc |-> "off", initial |-> allLedsOff, target |-> allLedsOff,
        relativeTime |-> 0, result |-> allLedsOff]

TheMachine == controllerTable(<<100, 50>>, "digital", 30)
TheLoop == [maxLoopCount |-> 1, controller |-> TheMachine]
TheSwitch == <<TheLoop>>

\* --------------------------------------------- runs of one StatefulController
Init ==
  /\ \E c \in Controllers : MachineStart(c)
  /\ LoopStart(TheLoop)
  /\ SwitchStart(TheSwitch)
  /\ DriverOff /\ InterpOff

Bump(f, q) == [i \in DOMAIN f |-> f[i] + Count(q, <<0, i>>)]

Reset ==
  /\ hist.ops < MaxOps
  /\ \E w \in {SC_reset(cfg, 0, [s |-> sc, x |-> NoTrace])} :
         /\ sc' = w.s
         /\ tr' = w.x
         /\ res' = NoResult
         /\ op' = [name |-> "reset", elapsed |-> 0, fade |-> FALSE]
         /\ pre' = [s |-> sc, r |-> res, name |-> op.name, fade |-> op.fade]
         /\ hist' = [NoHist(cfg.maxStateIndex) EXCEPT
                       !.ops = hist.ops + 1, !.wasReset = TRUE,
                       !.applyCount = Bump(@, w.x.applied),
                       !.enterCount = Bump(@, w.x.entered),
                       !.restCount = Bump(@, <<<<0, 0>>>>)]
  /\ UNCHANGED <<cfg, varsLoop, varsSwitch, varsDriver, varsInterp>>

DoControl(timeSinceLastCall) ==
  /\ hist.ops < MaxOps
  /\ \E w \in {SC_doControl(cfg, 0, [s |-> sc, x |-> NoTrace], timeSinceLastCall)} :
         /\ sc' = w.s
         /\ tr' = w.x
         /\ res' = w.r
         /\ op' = [name |-> "doControl", elapsed |-> timeSinceLastCall, fade |-> w.fade]
         /\ pre' = [s |-> sc, r |-> res, name |-> op.name, fade |-> op.fade]
         /\ hist' = [hist EXCEPT
                       !.ops = @ + 1,
                       !.calls = IF @ < 2 THEN @ + 1 ELSE @,
                       !.script = IF @ >= 0 /\ @ < Len(Scenario) /\ Scenario[@ + 1] = timeSinceLastCall
                                  THEN @ + 1 ELSE 0 - 1,
                       !.T = @ + timeSinceLastCall,
                       !.remainders = @ + w.r.remainingTime,
                       !.applyCount = Bump(@, w.x.applied),
                       !.enterCount = Bump(@, w.x.entered),
                       !.restCount = IF ~w.r.finished /\ w.s.currentStateIndex # sc.currentStateIndex
                                     THEN Bump(@, <<<<0, w.s.currentStateIndex>>>>) ELSE @]
  /\ UNCHANGED <<cfg, varsLoop, varsSwitch, varsDriver, varsInterp>>

Next ==
  \/ Reset
  \/ \E t \in ElapsedSet \cup {res.suggestedSleepTime} : DoControl(t)

Spec == Init /\ [][Next]_vars

\* ------------------- runs of a LoopingController beside its flat machine
InitLoop ==
  /\ MachineStart(TheMachine)
  /\ \E m \in 0..MaxLoopCount : \E c \in LoopControllers :
        LoopStart([maxLoopCount |-> m, controller |-> c])
  /\ SwitchStart(TheSwitch)
  /\ DriverOff /\ InterpOff

LoopReset ==
  /\ lp.ops < MaxOps
  /\ \E wl \in {LC_reset(lp.lc, 0, [s |-> lp.ls, x |-> NoTrace])} :
     \E wf \in {SC_reset(lp.flat, 0, [s |-> lp.fs, x |-> NoTrace])} :
         lp' = [lp EXCEPT !.ls = wl.s, !.fs = wf.s, !.tr = wl.x,
                          !.lres = NoResult, !.fres = NoResult,
                          !.name = "reset", !.elapsed = 0,
                          !.wasReset = TRUE, !.ops = @ + 1, !.childDone = 0]
  /\ UNCHANGED <<varsMachine, varsSwitch, varsDriver, varsInterp>>

LoopDoControl(timeSinceLastCall) ==
  /\ lp.ops < MaxOps
  /\ \E wl \in {LC_doControl(lp.lc, 0, [s |-> lp.ls, x |-> NoTrace], timeSinceLastCall)} :
     \E wf \in {SC_doControl(lp.flat, 0, [s |-> lp.fs, x |-> NoTrace], timeSinceLastCall)} :
         lp' = [lp EXCEPT !.ls = wl.s, !.fs = wf.s, !.tr = wl.x,
                          !.lres = wl.r, !.fres = wf.r,
                          !.name = "doControl", !.elapsed = timeSinceLastCall,
                          !.ops = @ + 1,
                          !.childDone = @ + Count(wl.x.finishes, <<"SC", 0>>)]
  /\ UNCHANGED <<varsMachine, varsSwitch, varsDriver, varsInterp>>

NextLoop ==
  \/ LoopReset
  \/ \E t \in ElapsedSet \cup {lp.lres.suggestedSleepTime} : LoopDoControl(t)

SpecLoop == InitLoop /\ [][NextLoop]_vars

\* ------------------------------------------ runs of a SwitchingController
InitSwitch ==
  /\ MachineStart(TheMachine)
  /\ LoopStart(TheLoop)
  /\ \E tc \in Switches : SwitchStart(tc)
  /\ DriverOff /\ InterpOff

SwReset ==
  /\ run.pc = "idle"
  /\ run.ops < MaxSwitchOps
  /\ \E w \in {SW_reset(tcfg, [s |-> sw, x |-> After(ttr)])} :
         /\ sw' = w.s
         /\ ttr' = w.x
  /\ tres' = NoResult
  /\ run' = [run EXCEPT !.name = "reset", !.elapsed = 0, !.remainingTime = 0,
                        !.wrapped = FALSE, !.passes = 0, !.wasReset = TRUE,
                        !.ops = @ + 1,
                        !.cursor = sw.currentControllerIndex, !.leaf = NoResult, !.fade = FALSE,
                        !.T = 0]
  /\ UNCHANGED <<varsMachine, varsLoop, tcfg, beat, varsDriver, varsInterp>>

\* doControl is entered: the locals of the call are initialised
SwDoControl(timeSinceLastCall) ==
  /\ run.pc = "idle"
  /\ run.ops < MaxSwitchOps
  /\ run' = [run EXCEPT !.pc = "loop", !.name = "doControl",
                        !.elapsed = timeSinceLastCall,
                        !.remainingTime = timeSinceLastCall,
                        !.wrapped = FALSE, !.passes = 0, !.ops = @ + 1,
                        !.cursor = sw.currentControllerIndex, !.leaf = NoResult, !.fade = FALSE,
                        !.T = @ + timeSinceLastCall]
  /\ ttr' = After(ttr)
  /\ UNCHANGED <<varsMachine, varsLoop, tcfg, sw, tres, beat, varsDriver, varsInterp>>

\* one pass of the do-while loop; the pass that ends the loop returns
SwPass ==
  /\ run.pc = "loop"
  /\ \E p \in {SW_doControlPass(tcfg, [s |-> sw, x |-> After(ttr)], run.remainingTime)} :
         /\ sw' = p.s
         /\ ttr' = p.x
         /\ tres' = IF p.thereIsMoreTimeToSpend THEN tres ELSE p.r
         /\ run' = [run EXCEPT
                      !.pc = IF p.thereIsMoreTimeToSpend THEN "loop" ELSE "idle",
                      !.remainingTime = p.remainingTime,
                      !.passes = IF @ < 2 THEN @ + 1 ELSE @,
                      !.wrapped = @ \/ (p.thereIsMoreTimeToSpend
                                         /\ p.s.currentControllerIndex = 0),
                      !.cursor = sw.currentControllerIndex,
                      !.leaf = p.leaf, !.fade = p.fade]
  /\ beat' = 1 - beat
  /\ UNCHANGED <<varsMachine, varsLoop, tcfg, varsDriver, varsInterp>>

NextSwitch ==
  \/ SwReset
  \/ \E t \in ElapsedSet \cup {tres.suggestedSleepTime} : SwDoControl(t)
  \/ SwPass

SpecSwitch == InitSwitch /\ [][NextSwitch]_vars

\* The processor keeps executing a doControl that is inside its do-while
\* loop.  PassDue holds of exactly the steps of SwPass: inside the loop no
\* other action is enabled and every pass flips beat.
PassDue == run.pc = "loop" /\ beat' = 1 - beat

SpecSwitchFair == SpecSwitch /\ WF_beat(PassDue)

\* ------------------------------------------- claims on StatefulController
IsCall == op.name = "doControl"

States == 0..(cfg.maxStateIndex - 1)

\* every state of the machine lasts some time
PositiveDurations == \A i \in 1..Len(cfg.duration) : cfg.duration[i] > 0

\* C1: conservation of time - after reset(), while the elapsed times of the
\* doControl calls sum to T below the total duration, every call returns
\* unfinished and (durations of the states passed) + time in state = T.
C1_ConservationOfTime ==
  (hist.wasReset /\ hist.T < TotalDuration(cfg)) =>
     /\ Consumed(cfg, sc) = hist.T
     /\ sc.currentStateIndex < cfg.maxStateIndex
     /\ IsCall => ~res.finished

C1_Witness ==
  /\ hist.wasReset /\ IsCall /\ hist.calls >= 2
  /\ hist.T < TotalDuration(cfg)
  /\ sc.currentStateIndex > 0 /\ sc.timeSpentOnCurrentState > 0

\* C2 as stated: once the elapsed time exceeds the total duration by X the
\* machine reports finished with remainingTime = X however X was split
\* (read on machines of positive durations and calls with elapsed time).
C2_FinalRemainderIsExcess ==
  (hist.wasReset /\ IsCall /\ hist.T > TotalDuration(cfg)
     /\ PositiveDurations /\ op.elapsed > 0) =>
     (res.finished /\ res.remainingTime = hist.T - TotalDuration(cfg))

\* C2 amended: once the elapsed time has reached the total duration every
\* call reports finished, the call that passes the last state returns the
\* excess supplied so far, and the remainders returned since reset() sum to
\* the whole excess.
C2_RemaindersSumToExcess ==
  (hist.wasReset /\ IsCall /\ hist.T >= TotalDuration(cfg)) =>
     /\ res.finished
     /\ hist.remainders = hist.T - TotalDuration(cfg)
     /\ pre.s.currentStateIndex < cfg.maxStateIndex =>
          res.remainingTime = hist.T - TotalDuration(cfg)

C2_Witness ==
  /\ hist.wasReset /\ IsCall /\ res.finished
  /\ pre.s.currentStateIndex >= cfg.maxStateIndex
  /\ pre.name = "doControl" /\ pre.r.remainingTime > 0
  /\ op.elapsed > 0
  /\ hist.remainders = pre.r.remainingTime + op.elapsed

\* C3: exact exhaustion - a doControl whose elapsed time equals the rest of
\* the current state plus all later durations returns finished with
\* remainingTime = 0.
C3_ExactExhaustion ==
  (IsCall /\ op.elapsed = Remaining(cfg, pre.s)) =>
     (res.finished /\ res.remainingTime = 0)

C3_Witness ==
  /\ IsCall /\ op.elapsed = Remaining(cfg, pre.s) /\ op.elapsed > 0
  /\ pre.s.timeSpentOnCurrentState > 0
  /\ pre.s.currentStateIndex + 1 < cfg.maxStateIndex
  /\ res.finished

\* C6: the scenario durations [100, 50], reset(), doControl(0),
\* doControl(120), doControl(40): state 0 is activated once, by reset();
\* state 1 once, by doControl(120); the first two calls return unfinished
\* and the third finished with remainingTime = 10.
C6_Scenario ==
  (cfg.duration = <<100, 50>> /\ hist.wasReset) =>
     /\ op.name = "reset" => tr.applied = <<<<0, 0>>>>
     /\ (IsCall /\ hist.script = 1) => (~res.finished /\ tr.applied = <<>>)
     /\ (IsCall /\ hist.script = 2) =>
          (~res.finished /\ tr.applied = <<<<0, 1>>>>)
     /\ (IsCall /\ hist.script = 3) =>
          /\ res.finished /\ res.remainingTime = 10
          /\ tr.applied = <<>>
          /\ hist.applyCount[0] = 1 /\ hist.applyCount[1] = 1

C6_Witness ==
  cfg.duration = <<100, 50>> /\ hist.wasReset /\ IsCall /\ hist.script = 3

\* C8 as stated: every unfinished result, fade or not, suggests a sleep of
\* at most the time left in the current state (read on machines of
\* positive durations after reset()).
C8_SleepNeverPassesTransition ==
  (IsCall /\ ~res.finished /\ hist.wasReset /\ PositiveDurations) =>
     res.suggestedSleepTime
       <= getStateDuration(cfg, sc.currentStateIndex) - sc.timeSpentOnCurrentState

\* C8 amended: an unfinished result returned by the branch without a fade
\* suggests at most the time left in the current state, and a next call
\* with that sleep as elapsed time leaves the state with no time over.
C8_SleepBoundWithoutFade ==
  /\ (IsCall /\ ~res.finished /\ ~op.fade) =>
        res.suggestedSleepTime
          <= getStateDuration(cfg, sc.currentStateIndex) - sc.timeSpentOnCurrentState
  /\ (IsCall /\ pre.name = "doControl" /\ ~pre.r.finished /\ ~pre.fade
        /\ op.elapsed = pre.r.suggestedSleepTime) =>
        \/ res.finished /\ res.remainingTime = 0
        \/ /\ ~res.finished
           /\ sc.currentStateIndex > pre.s.currentStateIndex
           /\ sc.timeSpentOnCurrentState = 0

C8_Witness ==
  /\ IsCall /\ pre.name = "doControl" /\ ~pre.r.finished /\ ~pre.fade
  /\ pre.s.timeSpentOnCurrentState > 0
  /\ op.elapsed = pre.r.suggestedSleepTime
  /\ ~res.finished /\ sc.currentStateIndex > pre.s.currentStateIndex

\* C9: reset() returns the machine to state index 0 with no time spent and
\* no fade in progress other than one started by the activation of state 0
\* (read on machines of positive durations).
C9_ResetCancelsFade ==
  (op.name = "reset" /\ PositiveDurations) =>
     /\ sc.currentStateIndex = 0
     /\ sc.timeSpentOnCurrentState = 0
     /\ sc.pwmTransitionInProgress => cfg.apply[1].kind = "pwm"

\* C10 as stated: every state index entered since reset(), the indices
\* crossed inside one call included, was activated exactly once per entry
\* (read on machines of positive durations).
C10_ActivatedOncePerEntry ==
  (hist.wasReset /\ PositiveDurations) =>
     \A i \in States : hist.applyCount[i] = hist.enterCount[i]

\* C10 amended: a state is activated exactly once each time reset() or a
\* doControl returns with the machine newly in it; states crossed inside a
\* call are not activated, a call invokes at most one activation and a call
\* that keeps the state index invokes none.
C10_ActivatedOncePerArrival ==
  /\ hist.wasReset => \A i \in States : hist.applyCount[i] = hist.restCount[i]
  /\ IsCall => Len(tr.applied) <= 1
  /\ (IsCall /\ sc.currentStateIndex = pre.s.currentStateIndex) => tr.applied = <<>>
  /\ (IsCall /\ ~res.finished /\ Len(tr.entered) >= 2) =>
        tr.applied = <<<<0, sc.currentStateIndex>>>>

C10_Witness ==
  /\ hist.wasReset /\ IsCall /\ ~res.finished
  /\ Len(tr.entered) >= 2
  /\ \E i \in States : hist.enterCount[i] > hist.applyCount[i]

\* ------------------------------------------- claims on LoopingController
\* C4: repeater equivalence - after reset() of both, a LoopingController
\* with maxLoopCount M around a machine of N states and the single machine
\* of M * N states replicating it return the same finished flag and the
\* same remainingTime on every doControl of every sequence of calls.
C4_RepeaterEquivalence ==
  (lp.wasReset /\ lp.name = "doControl") =>
     /\ lp.lres.finished = lp.fres.finished
     /\ lp.lres.remainingTime = lp.fres.remainingTime

\* a call at M = 3 that started a further iteration and finished the loop
C4_Witness ==
  /\ lp.wasReset /\ lp.name = "doControl"
  /\ lp.lc.maxLoopCount = 3
  /\ lp.lres.finished /\ lp.lres.remainingTime > 0
  /\ lp.ls.currentLoopCount = 3
  /\ \E k \in 1..Len(lp.tr.calls) : lp.tr.calls[k] = <<"SC", 0, "reset", 0>>
  /\ \E i \in 1..Len(lp.lc.controller.duration) : lp.lc.controller.duration[i] > 0

\* ----------------------------------------- claims on SwitchingController
\* C5: the sequencer never terminates - every WorkState returned by
\* SwitchingController::doControl is unfinished.
C5_SwitchNeverFinished ==
  (run.name = "doControl" /\ run.pc = "idle") => ~tres.finished

\* a call returned after the switch wrapped from its last controller to 0
C5_Witness ==
  /\ run.name = "doControl" /\ run.pc = "idle" /\ run.wrapped
  /\ Len(tcfg) >= 2 /\ run.elapsed > 0

\* C7: every doControl call returns - for every configuration, zero
\* iteration loops and zero duration states included, the do-while loop of
\* SwitchingController::doControl ends.
C7_DoControlReturns == (run.pc = "loop") ~> (run.pc = "idle")

\* the doControl a pass of the do-while loop starts with: on the controller
\* at cursor, with elapsed time t
PassCall(cursor, t) ==
  <<IF IsLoop(tcfg[cursor + 1]) THEN "LC" ELSE "SC", cursor, "doControl", t>>

\* the reset() of the controller at cursor
ResetCall(cursor) ==
  <<IF IsLoop(tcfg[cursor + 1]) THEN "LC" ELSE "SC", cursor, "reset", 0>>

\* C11: sequencer carry-over - the first pass of a doControl advances the
\* controller at the cursor with the elapsed time of the call; when the
\* controller of a pass reported finished with remainder r, that pass moved
\* the cursor by one (wrapping to 0 past the last index) and reset the
\* controller there after the controller's doControl, and the next pass of
\* the same call advances that controller with exactly r.
C11_CarryOver ==
  [][(run.pc = "loop" /\ beat' # beat) =>
       /\ ttr'.calls[1] = PassCall(sw.currentControllerIndex, run.remainingTime)
       /\ run.passes = 0 => run.remainingTime = run.elapsed
       /\ run.passes > 0 =>
            /\ run.leaf.finished
            /\ run.remainingTime = run.leaf.remainingTime
            /\ sw.currentControllerIndex = (run.cursor + 1) % Len(tcfg)
            /\ ttr.calls[1] = PassCall(run.cursor, ttr.calls[1][4])
            /\ \E k \in 2..Len(ttr.calls) :
                  /\ ttr.calls[k] = ResetCall(sw.currentControllerIndex)
                  /\ \A j \in (k + 1)..Len(ttr.calls) : ttr.calls[j][3] = "reset"]_vars

\* a pass that advanced the second of several controllers with the
\* remainder 0 < r < elapsed the first one reported
C11_Witness ==
  /\ run.name = "doControl" /\ run.passes >= 2 /\ Len(tcfg) >= 2
  /\ run.cursor = 1
  /\ ttr.calls[1] = PassCall(1, ttr.calls[1][4])
  /\ ttr.calls[1][4] > 0 /\ ttr.calls[1][4] < run.elapsed

\* C12: a LoopingController with maxLoopCount = 0 ends at once - every
\* doControl(elapsed) returns finished with remainingTime = elapsed, makes no
\* call on the wrapped controller, leaves its fields as they were and writes
\* nothing.
C12_ZeroLoopsNoChildCall ==
  [][(lp.lc.maxLoopCount = 0 /\ lp'.name = "doControl" /\ lp'.ops = lp.ops + 1) =>
       /\ lp'.lres = finishedWorkState(lp'.elapsed)
       /\ lp'.ls = lp.ls
       /\ lp'.tr.calls = <<<<"LC", 0, "doControl", lp'.elapsed>>>>
       /\ lp'.tr.writes = <<>> /\ lp'.tr.applied = <<>> /\ lp'.tr.entered = <<>>]_vars

\* a call with elapsed time on a zero-iteration loop whose child was reset
C12_Witness ==
  /\ lp.lc.maxLoopCount = 0 /\ lp.name = "doControl" /\ lp.wasReset
  /\ lp.elapsed > 0 /\ lp.lres.finished
  /\ lp.lc.controller.duration[1] > 0 /\ lp.ls.child.currentStateIndex = 0

\* what the activation of the state a doControl started in does
StartedIn == cfg.apply[pre.s.currentStateIndex + 1]

\* C13: fade boundary exactness - when a doControl brings the time spent in
\* a state whose activation started a fade of total duration F to exactly F
\* (F at most the duration of the state, F equal to it included), the last
\* snapshot the call writes to the sink is the target snapshot of the fade
\* (read on machines of positive durations after reset()).
C13_FadeEndsAtTarget ==
  (/\ IsCall /\ hist.wasReset /\ PositiveDurations /\ op.elapsed > 0
   /\ pre.s.currentStateIndex < cfg.maxStateIndex
   /\ StartedIn.kind = "pwm"
   /\ StartedIn.time <= getStateDuration(cfg, pre.s.currentStateIndex)
   /\ pre.s.timeSpentOnCurrentState + op.elapsed = StartedIn.time) =>
     /\ tr.writes # <<>>
     /\ tr.writes[Len(tr.writes)] = [by |-> 0, kind |-> "analog", v |-> StartedIn.target]


\* ------------------------------------------ applications of intermediateState
\* channel values: off, the smallest positive brightness, full brightness
ChannelSet == {0, 1, One}

Snapshots ==
  {analogLedsState(r, a, g, b, w) :
     r \in ChannelSet, a \in ChannelSet, g \in ChannelSet, b \in ChannelSet, w \in ChannelSet}

\* relative times below, inside and above [0.0, 1.0]
RelativeTimes == {0 - One, 0, One \div 2, One, 2 * One}

InitInterp ==
  /\ MachineStart(TheMachine)
  /\ LoopStart(TheLoop)
  /\ SwitchStart(TheSwitch)
  /\ DriverOff
  /\ \E initial \in Snapshots : \E target \in Snapshots : \E relativeTime \in RelativeTimes :
        ip = [pc |-> "call", initial |-> initial, target |-> target,
              relativeTime |-> relativeTime, result |-> allLedsOff]

IntermediateState ==
  /\ ip.pc = "call"
  /\ ip' = [ip EXCEPT !.pc = "done",
                      !.result = intermediateState(ip.initial, ip.target, ip.relativeTime)]
  /\ UNCHANGED <<varsMachine, varsLoop, varsSwitch, varsDriver>>

NextInterp == IntermediateState

SpecInterp == InitInterp /\ [][NextInterp]_vars

\* C14: fade interpolator endpoints and clamping: for all snapshots A and B,
\* intermediateState(A, B, t) is A for every t <= 0 and B for every t >= 1.
C14_InterpolateEndpoints ==
  ip.pc = "done" =>
    /\ ip.relativeTime <= 0 => ip.result = ip.initial
    /\ ip.relativeTime >= One => ip.result = ip.target


WellFormed(r) ==
  /\ r.finished => r.suggestedSleepTime = 0
  /\ ~r.finished => r.remainingTime = 0

\* C15: WorkState well-formedness: every WorkState returned by a
\* StatefulController, a LoopingController or the SwitchingController is
\* finished with suggestedSleepTime = 0 or unfinished with remainingTime = 0.
C15_WellFormedResults ==
  /\ WellFormed(res)
  /\ WellFormed(lp.lres) /\ WellFormed(lp.fres)
  /\ WellFormed(tres) /\ WellFormed(run.leaf)

\* inside a doControl whose last pass saw a LoopingController finish with
\* time left over, after an earlier doControl that suggested a sleep
C15_Witness ==
  /\ run.pc = "loop" /\ run.passes >= 1
  /\ IsLoop(tcfg[run.cursor + 1])
  /\ run.leaf.finished /\ run.leaf.remainingTime > 0
  /\ ~tres.finished /\ tres.suggestedSleepTime > 0


\* ------------------------------------------------------------ runs of loop()
nextSleepTime_Zero(result) == 0

\* what loop() keeps of the result of a doControl
nextSleepTime(result) == result.suggestedSleepTime

\* counts are kept up to 2: none, one, more than one
UpTo2(n) == IF n < 2 THEN n + 1 ELSE n

\* loop() is about to run on the constructed mainController
InitDriver ==
  /\ MachineStart(TheMachine)
  /\ LoopStart(TheLoop)
  /\ \E tc \in Switches : SwitchStart(tc)
  /\ drv = [pc |-> "reset", sleepTime |-> 0, resets |-> 0, calls |-> 0,
            timeSinceLastCall |-> 0, last |-> NoResult, lastFade |-> FALSE]
  /\ InterpOff

\* mainController.reset(); uint32_t sleepTime = 0;
DriverReset ==
  /\ drv.pc = "reset"
  /\ \E w \in {SW_reset(tcfg, [s |-> sw, x |-> After(ttr)])} :
         /\ sw' = w.s
         /\ ttr' = w.x
  /\ tres' = NoResult
  /\ run' = [run EXCEPT !.name = "reset", !.elapsed = 0, !.remainingTime = 0,
                        !.wrapped = FALSE, !.passes = 0, !.wasReset = TRUE,
                        !.cursor = sw.currentControllerIndex, !.leaf = NoResult, !.fade = FALSE]
  /\ drv' = [drv EXCEPT !.pc = "call", !.sleepTime = 0, !.resets = UpTo2(@)]
  /\ beat' = 1 - beat
  /\ UNCHANGED <<varsMachine, varsLoop, tcfg, varsInterp>>

\* mainController.doControl(sleepTime) is entered
DriverCall ==
  /\ drv.pc = "call"
  /\ run.pc = "idle"
  /\ run' = [run EXCEPT !.pc = "loop", !.name = "doControl",
                        !.elapsed = drv.sleepTime,
                        !.remainingTime = drv.sleepTime,
                        !.wrapped = FALSE, !.passes = 0,
                        !.cursor = sw.currentControllerIndex, !.leaf = NoResult, !.fade = FALSE]
  /\ ttr' = After(ttr)
  /\ drv' = [drv EXCEPT !.pc = "doControl", !.calls = UpTo2(@),
                        !.timeSinceLastCall = drv.sleepTime, !.last = tres,
                        !.lastFade = run.fade]
  /\ beat' = 1 - beat
  /\ UNCHANGED <<varsMachine, varsLoop, tcfg, sw, tres, varsInterp>>

\* one pass of the do-while loop of doControl; after the pass that ends it
\* loop() takes the suggested sleep time and sleeps
DriverPass ==
  /\ drv.pc = "doControl"
  /\ run.pc = "loop"
  /\ \E p \in {SW_doControlPass(tcfg, [s |-> sw, x |-> After(ttr)], run.remainingTime)} :
         /\ sw' = p.s
         /\ ttr' = p.x
         /\ tres' = IF p.thereIsMoreTimeToSpend THEN tres ELSE p.r
         /\ run' = [run EXCEPT
                      !.pc = IF p.thereIsMoreTimeToSpend THEN "loop" ELSE "idle",
                      !.remainingTime = p.remainingTime,
                      !.passes = UpTo2(@),
                      !.wrapped = @ \/ (p.thereIsMoreTimeToSpend
                                         /\ p.s.currentControllerIndex = 0),
                      !.cursor = sw.currentControllerIndex,
                      !.leaf = p.leaf, !.fade = p.fade]
         /\ drv' = IF p.thereIsMoreTimeToSpend THEN drv
                   ELSE [drv EXCEPT !.pc = "call", !.sleepTime = nextSleepTime(p.r)]
  /\ beat' = 1 - beat
  /\ UNCHANGED <<varsMachine, varsLoop, tcfg, varsInterp>>

NextDriver ==
  \/ DriverReset
  \/ DriverCall
  \/ DriverPass

\* The processor keeps executing loop(): DriverDue holds of exactly the
\* steps of loop(), each of which flips beat.
DriverDue == drv.pc # "off" /\ beat' = 1 - beat

SpecDriver == InitDriver /\ [][NextDriver]_vars /\ WF_beat(DriverDue)


\* total duration of the controller nc of the SwitchingController
NodeDuration(nc) ==
  IF IsLoop(nc) THEN nc.maxLoopCount * TotalDuration(nc.controller)
  ELSE TotalDuration(nc)

PositiveTotals == \A i \in 1..Len(tcfg) : NodeDuration(tcfg[i]) > 0

\* C16: cycling forever - under loop(), when every controller of the list has
\* a positive total duration, the cursor only ever moves from a controller
\* to the next one of the list, from the last back to the first, and every
\* controller is the current one again and again.
C16_CyclesForever ==
  /\ [][PositiveTotals =>
          sw.currentControllerIndex' \in
            {sw.currentControllerIndex, (sw.currentControllerIndex + 1) % Len(tcfg)}]_vars
  /\ \A i \in 0..(MaxControllers - 1) :
        []<>((PositiveTotals /\ i < Len(tcfg)) => sw.currentControllerIndex = i)

\* loop() has gone through a list of two controllers of positive total
\* duration and is back at the first one
C16_Witness ==
  /\ PositiveTotals /\ Len(tcfg) >= 2
  /\ drv.pc = "doControl" /\ drv.calls >= 2 /\ run.wrapped
  /\ run.cursor = 1 /\ sw.currentControllerIndex = 0


\* C19: driver protocol - loop() calls reset() exactly once, before the first
\* doControl; the first doControl gets 0 and every later one the
\* suggestedSleepTime returned by the doControl before it.
C19_DriverProtocol ==
  /\ drv.resets <= 1
  /\ drv.calls >= 1 =>
       /\ drv.resets = 1
       /\ run.wasReset
       /\ drv.timeSinceLastCall = (IF drv.calls = 1 THEN 0 ELSE drv.last.suggestedSleepTime)
  /\ drv.pc = "doControl" =>
       /\ run.elapsed = drv.timeSinceLastCall
       /\ drv.last = tres

\* inside a doControl after the first, entered with the positive sleep
\* time the doControl before it suggested
C19_Witness ==
  /\ drv.pc = "doControl" /\ drv.calls >= 2 /\ run.passes = 0
  /\ drv.last.suggestedSleepTime > 0
  /\ run.elapsed = drv.last.suggestedSleepTime
  /\ drv.sleepTime > 0


\* the state indices of the entries q of a trace
Indices(q) == {q[k][2] : k \in 1..Len(q)}

\* C17: out-of-range state indices - in a machine of N >= 1 states reset()
\* and doControl pass only indices below N to getStateDuration and to
\* applyLedStatesForState; a machine whose index has reached N is finished.
C17_IndicesInRange ==
  cfg.maxStateIndex >= 1 =>
    /\ \A i \in Indices(tr.applied) \cup Indices(tr.queried) : i >= 0 /\ i < cfg.maxStateIndex
    /\ (IsCall /\ sc.currentStateIndex >= cfg.maxStateIndex) => res.finished

\* a doControl that left two or more states and went past the last one
C17_Witness ==
  /\ IsCall /\ hist.wasReset /\ cfg.maxStateIndex >= 2
  /\ pre.s.currentStateIndex < cfg.maxStateIndex
  /\ Len(tr.entered) >= 2 /\ Len(tr.queried) >= 2
  /\ sc.currentStateIndex = cfg.maxStateIndex /\ res.finished


\* C18: sole writer - every write to the LEDs made during a reset() or a
\* doControl of the SwitchingController is made by the machine under the
\* controller that is the current one at the time of the write.
C18_SoleWriter ==
  /\ Len(ttr.cursors) = Len(ttr.writes)
  /\ \A k \in 1..Len(ttr.writes) : ttr.writes[k].by = ttr.cursors[k]

\* a pass in which the first controller wrote, finished, and the second
\* controller wrote in its reset()
C18_Witness ==
  /\ run.name = "doControl" /\ run.passes >= 1 /\ Len(tcfg) >= 2
  /\ run.cursor = 0 /\ sw.currentControllerIndex = 1 /\ run.leaf.finished
  /\ \E j \in 1..Len(ttr.writes) : \E k \in (j + 1)..Len(ttr.writes) :
        ttr.writes[j].by = 0 /\ ttr.writes[k].by = 1


\* C20: a finished machine consumes nothing - a doControl on a machine whose
\* state index is at or past maxStateIndex returns finished with the whole
\* elapsed time as remainingTime, leaves every field as it was and writes
\* nothing.
C20_FinishedConsumesNothing ==
  (IsCall /\ pre.s.currentStateIndex >= cfg.maxStateIndex) =>
    /\ res.finished /\ res.remainingTime = op.elapsed /\ res.suggestedSleepTime = 0
    /\ sc = pre.s
    /\ tr.writes = <<>> /\ tr.applied = <<>> /\ tr.queried = <<>> /\ tr.entered = <<>>

\* a doControl with time to hand on, made on a machine that finished while
\* a fade was still flagged as in progress
C20_Witness ==
  /\ IsCall /\ hist.wasReset /\ pre.s.currentStateIndex >= cfg.maxStateIndex
  /\ op.elapsed > 0 /\ res.remainingTime = op.elapsed
  /\ pre.s.pwmTransitionInProgress /\ sc.pwmTransitionInProgress
  /\ pre.name = "doControl" /\ pre.r.finished


\* the fields a controller of the switch has after reset(), but for the fade
AtStart(nc, s) ==
  IF IsLoop(nc)
  THEN /\ s.currentLoopCount = 0
       /\ s.child.currentStateIndex = 0 /\ s.child.timeSpentOnCurrentState = 0
  ELSE s.currentStateIndex = 0 /\ s.timeSpentOnCurrentState = 0

\* C21: re-entry is preceded by reset - no LoopingController or
\* SwitchingController calls doControl on a controller that has returned
\* finished and has not been reset since, and the controller the switch has
\* just moved to starts with loop count 0, state 0 and no time spent.
C21_ResetBeforeReentry ==
  /\ ttr.reentered = <<>>
  /\ (run.pc = "loop" /\ run.passes >= 1) =>
        AtStart(tcfg[sw.currentControllerIndex + 1], sw.ctl[sw.currentControllerIndex + 1])
  /\ run.name = "reset" => AtStart(tcfg[1], sw.ctl[1])

\* the second pass of a doControl on a switch of one LoopingController: in
\* the first pass the loop restarted its machine and finished, the switch
\* reset it, and this pass called it again
C21_Witness ==
  /\ Len(tcfg) = 1 /\ IsLoop(tcfg[1]) /\ tcfg[1].maxLoopCount >= 2
  /\ run.name = "doControl" /\ run.wasReset /\ run.passes >= 2
  /\ ~run.leaf.finished
  /\ Count(ttr.calls, <<"LC", 0, "doControl", run.remainingTime>>) = 1
  /\ ttr.done = {}


\* the machine on the active path of the switch s: its table and its fields
ActiveTable(nc) == IF IsLoop(nc) THEN nc.controller ELSE nc

ActiveMachine(nc, s) == IF IsLoop(nc) THEN s.child ELSE s

\* the doControl calls a LoopingController made on itself in the trace x
LoopCalls(x) ==
  Cardinality({k \in 1..Len(x.calls) : x.calls[k][1] = "LC" /\ x.calls[k][3] = "doControl"})

\* C22: repeater pass-through - in the pass in which the current controller
\* returns unfinished, a LoopingController hands on what its machine returned
\* and counts only the iterations that finished before; the switch returns
\* the sleep time the active machine suggested, with remainingTime 0.
C22_PassThrough ==
  [][(run.pc = "loop" /\ beat' # beat /\ run'.pc = "idle") =>
       LET cur == sw.currentControllerIndex
           nc == tcfg[cur + 1]
           m == ActiveMachine(nc, sw'.ctl[cur + 1])
       IN  /\ sw'.currentControllerIndex = cur
           /\ ~run'.leaf.finished /\ run'.leaf.remainingTime = 0
           /\ tres' = run'.leaf
           /\ tres'.suggestedSleepTime =
                (IF run'.fade THEN PWM_ANIMATION_INTERVAL
                 ELSE getStateDuration(ActiveTable(nc), m.currentStateIndex)
                        - m.timeSpentOnCurrentState)
           /\ IsLoop(nc) =>
                sw'.ctl[cur + 1].currentLoopCount
                  = sw.ctl[cur + 1].currentLoopCount + LoopCalls(ttr') - 1]_vars

\* a doControl has returned the sleep time of a machine without a fade that
\* a LoopingController in its second iteration handed on unchanged
C22_Witness ==
  /\ run.name = "doControl" /\ run.pc = "idle" /\ run.wasReset
  /\ IsLoop(tcfg[sw.currentControllerIndex + 1])
  /\ sw.ctl[sw.currentControllerIndex + 1].currentLoopCount = 1
  /\ LoopCalls(ttr) = 1
  /\ ~run.fade /\ tres.suggestedSleepTime > PWM_ANIMATION_INTERVAL
  /\ tres = run.leaf


\* the time the machine c consumes in iteration j of a doControl that found
\* it in position s: what is left of it in the first, all of it afterwards
IterationTime(c, s, j) == IF j = 1 THEN Remaining(c, s) ELSE TotalDuration(c)

\* C23: repeater completion - a doControl of a LoopingController that is
\* not yet done makes n >= 1 calls on its machine; between two of them the
\* machine finished with the count still below maxLoopCount, was reset and
\* was called again with its remainder; when the last call finishes, the
\* count has reached maxLoopCount, the machine's result is returned with its
\* remainder and the machine is neither reset nor called again.
C23_LoopCompletion ==
  [][(lp'.name = "doControl" /\ lp'.ops = lp.ops + 1
      /\ lp.ls.currentLoopCount < lp.lc.maxLoopCount) =>
       LET x == lp'.tr.calls
           n == LoopCalls(lp'.tr)
           c == lp.lc.controller
           count == lp.ls.currentLoopCount
       IN  /\ n >= 1 /\ Len(x) = 3 * n - 1
           /\ x[1] = <<"LC", 0, "doControl", lp'.elapsed>>
           /\ \A j \in 1..n :
                /\ x[3 * j - 2][1] = "LC" /\ x[3 * j - 2][3] = "doControl"
                /\ x[3 * j - 1] = <<"SC", 0, "doControl", x[3 * j - 2][4]>>
           /\ \A j \in 1..(n - 1) :
                /\ count + j < lp.lc.maxLoopCount
                /\ x[3 * j] = <<"SC", 0, "reset", 0>>
                /\ x[3 * j + 1][4] = x[3 * j - 2][4] - IterationTime(c, lp.ls.child, j)
           /\ lp'.lres.finished =>
                /\ lp'.ls.currentLoopCount = lp.lc.maxLoopCount
                /\ count + n = lp.lc.maxLoopCount
                /\ lp'.lres.remainingTime = x[3 * n - 2][4] - IterationTime(c, lp.ls.child, n)
                /\ lp'.ls.child.currentStateIndex = c.maxStateIndex
           /\ ~lp'.lres.finished =>
                /\ lp'.ls.currentLoopCount = count + n - 1
                /\ lp'.ls.currentLoopCount < lp.lc.maxLoopCount]_vars

\* a doControl that went through two iterations of the machine and finished
\* the loop in the last pass of a loop of two, with time left over
C23_Witness ==
  /\ lp.wasReset /\ lp.name = "doControl"
  /\ lp.lc.maxLoopCount = 2 /\ lp.ls.currentLoopCount = 2
  /\ LoopCalls(lp.tr) = 2
  /\ lp.lres.finished /\ lp.lres.remainingTime > 0
  /\ TotalDuration(lp.lc.controller) > 0
  /\ lp.tr.calls[Len(lp.tr.calls)][3] = "doControl"


\* C24: no-fade sleep suggestion - a doControl that returns unfinished by
\* the branch without a fade suggests exactly the duration of the current
\* state less the time spent in it.
C24_SleepIsRestOfState ==
  (IsCall /\ ~res.finished /\ ~op.fade) =>
    /\ ~sc.pwmTransitionInProgress
    /\ res.suggestedSleepTime
         = getStateDuration(cfg, sc.currentStateIndex) - sc.timeSpentOnCurrentState
    /\ res.suggestedSleepTime > 0

\* a doControl that came to rest inside a later state, part of its duration
\* spent, with no fade
C24_Witness ==
  /\ IsCall /\ hist.wasReset /\ ~res.finished /\ ~op.fade
  /\ sc.currentStateIndex > 0 /\ sc.timeSpentOnCurrentState > 0
  /\ res.suggestedSleepTime = 60


\* C25: no wasted wake-ups - under loop(), when a doControl returned from a
\* state without a fade, the first pass of the next doControl gets just the
\* rest of that state as elapsed time and the active machine leaves the
\* state with no time over: it is at the start of a later state, or it has
\* finished and was reset, or its controller has finished with
\* remainingTime 0.
C25_NoWastedWakeUps ==
  [][(drv.pc = "doControl" /\ run.pc = "loop" /\ run.passes = 0
      /\ drv.calls >= 2 /\ ~drv.lastFade /\ beat' # beat) =>
       LET cur == sw.currentControllerIndex
           nc == tcfg[cur + 1]
           c == ActiveTable(nc)
           m == ActiveMachine(nc, sw.ctl[cur + 1])
           n == ActiveMachine(nc, sw'.ctl[cur + 1])
       IN  /\ run.remainingTime
                = getStateDuration(c, m.currentStateIndex) - m.timeSpentOnCurrentState
           /\ run.remainingTime > 0
           /\ ttr'.entered # <<>>
           /\ ttr'.entered[1] = <<cur, m.currentStateIndex + 1>>
           /\ \/ run'.leaf.finished /\ run'.leaf.remainingTime = 0
              \/ /\ ~run'.leaf.finished
                 /\ n.timeSpentOnCurrentState = 0
                 /\ \/ n.currentStateIndex > m.currentStateIndex
                    \/ /\ IsLoop(nc)
                       /\ sw'.ctl[cur + 1].currentLoopCount
                            > sw.ctl[cur + 1].currentLoopCount]_vars

\* a doControl entered with the sleep time a state without a fade suggested
\* has returned after one pass: the machine is at the start of a later state
C25_Witness ==
  /\ drv.pc = "call" /\ drv.calls >= 2 /\ ~drv.lastFade
  /\ run.passes = 1 /\ run.elapsed > 0 /\ run.elapsed = drv.last.suggestedSleepTime
  /\ ~run.leaf.finished
  /\ ttr.entered # <<>>
  /\ ActiveMachine(tcfg[run.cursor + 1], sw.ctl[run.cursor + 1]).currentStateIndex > 0
  /\ ActiveMachine(tcfg[run.cursor + 1], sw.ctl[run.cursor + 1]).timeSpentOnCurrentState = 0


\* C26: fade completion - the doControl whose fade step finds the time spent
\* in the state at or past the total fade duration ends the fade and writes
\* the target snapshot last; a later doControl that stays in the state
\* writes nothing and suggests the rest of the state's duration.
C26_FadeCompletion ==
  /\ (IsCall /\ ~res.finished /\ op.fade
        /\ sc.timeSpentOnCurrentState >= sc.totalTransitionTime) =>
        /\ ~sc.pwmTransitionInProgress
        /\ tr.writes # <<>>
        /\ tr.writes[Len(tr.writes)] = [by |-> 0, kind |-> "analog", v |-> sc.targetState]
  /\ (IsCall /\ ~res.finished /\ ~pre.s.pwmTransitionInProgress
        /\ sc.currentStateIndex = pre.s.currentStateIndex) =>
        /\ tr.writes = <<>>
        /\ ~sc.pwmTransitionInProgress
        /\ res.suggestedSleepTime
             = getStateDuration(cfg, sc.currentStateIndex) - sc.timeSpentOnCurrentState

\* the doControl after the one that ended the fade of the current state
C26_Witness ==
  /\ IsCall /\ hist.wasReset /\ ~res.finished
  /\ pre.name = "doControl" /\ pre.fade /\ ~pre.s.pwmTransitionInProgress
  /\ sc.currentStateIndex = pre.s.currentStateIndex
  /\ StartedIn.kind = "pwm"
  /\ pre.s.timeSpentOnCurrentState >= StartedIn.time
  /\ op.elapsed > 0 /\ tr.writes = <<>>
  /\ res.suggestedSleepTime # PWM_ANIMATION_INTERVAL


\* C27: constant fade polling - a doControl that returns unfinished and
\* found a fade in progress at its fade step suggests PWM_ANIMATION_INTERVAL,
\* whatever the total fade duration, the progress of the fade and the rest
\* of the state's duration.
C27_ConstantFadePolling ==
  (IsCall /\ ~res.finished /\ op.fade) =>
     /\ res.suggestedSleepTime = PWM_ANIMATION_INTERVAL
     /\ tr.writes # <<>>

\* a fade step with less than one interval of the state left
C27_Witness ==
  /\ IsCall /\ hist.wasReset /\ ~res.finished /\ op.fade
  /\ sc.pwmTransitionInProgress
  /\ sc.timeSpentOnCurrentState > 0
  /\ sc.timeSpentOnCurrentState < sc.totalTransitionTime
  /\ getStateDuration(cfg, sc.currentStateIndex) - sc.timeSpentOnCurrentState
       < PWM_ANIMATION_INTERVAL


\* C28: zero-duration states are skipped - a doControl never returns
\* unfinished in a state of duration 0, and it invokes the activation
\* callback at most once, for the state it comes to rest in.
C28_ZeroDurationSkipped ==
  IsCall =>
    /\ ~res.finished => getStateDuration(cfg, sc.currentStateIndex) > 0
    /\ Len(tr.applied) <= 1
    /\ tr.applied # <<>> =>
         /\ ~res.finished
         /\ tr.applied = <<<<0, sc.currentStateIndex>>>>

\* a doControl that went through a state of duration 0 and came to rest in
\* the state after it
C28_Witness ==
  /\ IsCall /\ hist.wasReset /\ ~res.finished
  /\ Len(tr.entered) >= 2
  /\ getStateDuration(cfg, sc.currentStateIndex - 1) = 0
  /\ tr.applied = <<<<0, sc.currentStateIndex>>>>
  /\ op.elapsed > 0


Normalized(state) == \A ch \in 1..5 : state[ch] >= 0 /\ state[ch] <= One

\* the fade endpoints of the table c are normalized
NormalizedEndpoints(c) ==
  \A i \in 1..Len(c.apply) :
     c.apply[i].kind = "pwm" => Normalized(c.apply[i].initial) /\ Normalized(c.apply[i].target)

\* C29: emitted intensities stay normalized - every analog snapshot a
\* machine with fade endpoints in [0, 1] writes has its five channels in
\* [0, 1].
C29_WritesNormalized ==
  NormalizedEndpoints(cfg) =>
    \A k \in 1..Len(tr.writes) :
       tr.writes[k].kind = "analog" => Normalized(tr.writes[k].v)

\* a fade step that wrote a snapshot strictly between its endpoints
C29_Witness ==
  /\ IsCall /\ hist.wasReset /\ op.fade /\ sc.pwmTransitionInProgress
  /\ NormalizedEndpoints(cfg)
  /\ tr.writes # <<>>
  /\ LET v == tr.writes[Len(tr.writes)].v
     IN  /\ tr.writes[Len(tr.writes)].kind = "analog"
         /\ \E ch \in 1..5 : v[ch] > 0 /\ v[ch] < One /\ v[ch] # One \div 2
         /\ v # sc.initialState /\ v # sc.targetState


\* C30: no stale fade - after a doControl that comes to rest in a state
\* whose activation sets a static digital pattern, or a reset() into such a
\* state, no fade is in progress, the last value written to the sink is the
\* pattern of that state, and a doControl suggests the rest of the state as
\* sleep time, whether or not the fade of the state left had completed
\* (read on machines of positive durations after reset()).
C30_NoStaleFade ==
  (/\ hist.wasReset /\ PositiveDurations
   /\ sc.currentStateIndex < cfg.maxStateIndex
   /\ cfg.apply[sc.currentStateIndex + 1].kind = "digital"
   /\ \/ op.name = "reset"
      \/ IsCall /\ ~res.finished /\ tr.applied = <<<<0, sc.currentStateIndex>>>>) =>
     /\ ~sc.pwmTransitionInProgress
     /\ tr.writes # <<>>
     /\ tr.writes[Len(tr.writes)]
          = [by |-> 0, kind |-> "digital", v |-> cfg.apply[sc.currentStateIndex + 1].leds]
     /\ IsCall =>
          res.suggestedSleepTime
            = getStateDuration(cfg, sc.currentStateIndex) - sc.timeSpentOnCurrentState


\* SwitchingController::doControl from its entry to its return: the passes
\* of the do-while loop one after the other
RECURSIVE SW_doControl(_, _, _)
SW_doControl(tc, w, timeSinceLastCall) ==
  LET p == SW_doControlPass(tc, w, timeSinceLastCall)
  IN  IF p.thereIsMoreTimeToSpend
      THEN SW_doControl(tc, [s |-> p.s, x |-> After(p.x)], p.remainingTime)
      ELSE p

\* where the switch with the fields s is: its cursor and, of the current
\* controller, the loop count (0 for a bare machine), the state index and
\* the time spent in the state
Position(tc, s) ==
  LET cur == s.currentControllerIndex
      nc == tc[cur + 1]
      m == ActiveMachine(nc, s.ctl[cur + 1])
  IN  [cursor |-> cur,
       loopCount |-> IF IsLoop(nc) THEN s.ctl[cur + 1].currentLoopCount ELSE 0,
       stateIndex |-> m.currentStateIndex,
       timeSpent |-> m.timeSpentOnCurrentState]

\* where the switch is after construction, reset() and one doControl(t)
PositionAfter(tc, t) ==
  Position(tc, SW_doControl(tc, SW_reset(tc, [s |-> SwitchingController(tc), x |-> NoTrace]), t).s)

\* every machine of the switch has a positive total duration and some
\* controller takes time
TimedTree ==
  /\ \A i \in 1..Len(tcfg) : TotalDuration(ActiveTable(tcfg[i])) > 0
  /\ \E i \in 1..Len(tcfg) : NodeDuration(tcfg[i]) > 0

\* C31: split-invariance of the position - on a switch whose machines have
\* positive total durations, after reset() and one or more doControl calls
\* the cursor, the loop count of the current controller and the state index
\* and time in state of its machine are those that a single doControl with
\* the sum of the elapsed times leaves, however the sum was split into
\* calls.
C31_SplitInvariance ==
  (TimedTree /\ run.pc = "idle" /\ run.name = "doControl" /\ run.wasReset) =>
     Position(tcfg, sw) = PositionAfter(tcfg, run.T)

\* the second of two doControl calls with time since reset(), which took the
\* switch over the end of a controller
C31_Witness ==
  /\ TimedTree /\ run.pc = "idle" /\ run.name = "doControl" /\ run.wasReset
  /\ run.elapsed > 0 /\ run.T > run.elapsed
  /\ run.passes >= 2
  /\ Position(tcfg, sw).timeSpent > 0


\* C32: state invariant of StatefulController - the state index is never
\* above the number of states; after a doControl that returns unfinished it
\* is below that number and the time spent in the state is below the
\* duration of the state; after a doControl that returns finished it equals
\* the number of states.
C32_StateInvariant ==
  /\ sc.currentStateIndex <= cfg.maxStateIndex
  /\ (IsCall /\ ~res.finished) =>
        /\ sc.currentStateIndex < cfg.maxStateIndex
        /\ sc.timeSpentOnCurrentState >= 0
        /\ sc.timeSpentOnCurrentState < getStateDuration(cfg, sc.currentStateIndex)
  /\ (IsCall /\ res.finished) => sc.currentStateIndex = cfg.maxStateIndex

\* a doControl that left a state with time over and came to rest in the
\* last state, part of its duration spent
C32_Witness ==
  /\ IsCall /\ hist.wasReset /\ ~res.finished /\ op.elapsed > 0
  /\ Len(tr.entered) >= 1
  /\ sc.currentStateIndex = cfg.maxStateIndex - 1
  /\ sc.timeSpentOnCurrentState > 0
  /\ getStateDuration(cfg, sc.currentStateIndex) - sc.timeSpentOnCurrentState = 30


\* C33: an unfinished result suggests a positive sleep - every WorkState with
\* finished = false returned by the doControl of a StatefulController, of a
\* LoopingController or of the SwitchingController has suggestedSleepTime
\* above 0.
C33_PositiveSleep ==
  /\ (IsCall /\ ~res.finished) => res.suggestedSleepTime > 0
  /\ (lp.name = "doControl" /\ ~lp.lres.finished) => lp.lres.suggestedSleepTime > 0
  /\ (lp.name = "doControl" /\ ~lp.fres.finished) => lp.fres.suggestedSleepTime > 0
  /\ (run.name = "doControl" /\ run.passes >= 1 /\ ~run.leaf.finished) =>
        run.leaf.suggestedSleepTime > 0
  /\ (run.name = "doControl" /\ run.pc = "idle") =>
        ~tres.finished /\ tres.suggestedSleepTime > 0

\* a doControl of the switch that returned after a pass in which a
\* controller finished: the controller after it, called with the time left
\* over, returned unfinished
C33_Witness ==
  /\ run.name = "doControl" /\ run.pc = "idle" /\ run.wasReset
  /\ run.passes >= 2 /\ run.elapsed > 0
  /\ ~run.leaf.finished /\ run.leaf.suggestedSleepTime > 0
  /\ tres = unfinishedWorkState(run.leaf.suggestedSleepTime)


\* C34: counter invariant of LoopingController - the loop count is always
\* between 0 and maxLoopCount and equals the number of finished results the
\* wrapped machine has returned to the loop since its last reset(); once it
\* equals maxLoopCount, every doControl(elapsed) returns finished with
\* remainingTime = elapsed, leaves the fields as they were and makes no call
\* on the wrapped machine.
C34_CounterInvariant ==
  /\ [](/\ lp.ls.currentLoopCount >= 0
        /\ lp.ls.currentLoopCount <= lp.lc.maxLoopCount
        /\ lp.ls.currentLoopCount = lp.childDone)
  /\ [][(/\ lp.ls.currentLoopCount = lp.lc.maxLoopCount
         /\ lp'.name = "doControl" /\ lp'.ops = lp.ops + 1) =>
           /\ lp'.lres.finished
           /\ lp'.lres.remainingTime = lp'.elapsed
           /\ lp'.lres.suggestedSleepTime = 0
           /\ lp'.ls = lp.ls
           /\ \A k \in 1..Len(lp'.tr.calls) : lp'.tr.calls[k][1] # "SC"]_vars

\* a doControl with elapsed time on a loop of two or more iterations that
\* had all been made, the machine having finished once per iteration
C34_Witness ==
  /\ lp.lc.maxLoopCount >= 2 /\ lp.wasReset
  /\ lp.ls.currentLoopCount = lp.lc.maxLoopCount
  /\ lp.childDone = lp.lc.maxLoopCount
  /\ lp.name = "doControl" /\ lp.elapsed > 0
  /\ lp.tr.calls = <<<<"LC", 0, "doControl", lp.elapsed>>>>
  /\ lp.lres.finished /\ lp.lres.remainingTime = lp.elapsed


\* C35: cursor invariant of SwitchingController - the current controller
\* index is always at least 0 and below the controller count, so the lookup
\* of the current controller is never NULL and every reset and doControl
\* the switch makes goes to a controller of the list; the index changes
\* only to the next index, 0 after the last, in a pass in which the current
\* controller returned finished, or to 0 in reset().
C35_CursorInvariant ==
  /\ [](/\ sw.currentControllerIndex >= 0
        /\ sw.currentControllerIndex < getControllerCount(tcfg)
        /\ getControllerByIndex(tcfg, sw.currentControllerIndex) # NULL
        /\ \A k \in 1..Len(ttr.calls) :
              ttr.calls[k][2] >= 0 /\ ttr.calls[k][2] < getControllerCount(tcfg))
  /\ [][sw.currentControllerIndex' # sw.currentControllerIndex =>
          \/ /\ run.pc = "loop" /\ beat' # beat
             /\ run'.leaf.finished
             /\ sw.currentControllerIndex'
                  = (sw.currentControllerIndex + 1) % getControllerCount(tcfg)
          \/ /\ run'.name = "reset" /\ run'.ops = run.ops + 1
             /\ sw.currentControllerIndex' = 0]_vars

\* the pass in which the last of two controllers finished: the cursor is
\* back at the first, which was reset
C35_Witness ==
  /\ Len(tcfg) = 2 /\ run.name = "doControl" /\ run.wasReset
  /\ run.passes >= 2 /\ run.leaf.finished
  /\ run.cursor = 1 /\ sw.currentControllerIndex = 0
  /\ \E k \in 1..Len(ttr.calls) : ttr.calls[k][2] = 0 /\ ttr.calls[k][3] = "reset"

====
